---- MODULE Spec2Model ----
(***************************************************************************)
(* Tsume generator for Wild Cat Shogi (tools/tsume-generator/src/main.rs). *)
(* The program drives one engine process over a command/response channel:  *)
(* main -> generate_tsume -> simulate_game -> Engine::search ->             *)
(* Engine::search_with_time.  The engine process and the listener thread    *)
(* that fills the receiver queue are the environment.                       *)
(***************************************************************************)
EXTENDS Integers, Sequences, FiniteSets, TLC

\* ------------------------------------------------------------------------
\* Program constants
\* ------------------------------------------------------------------------
MAX_MOVES == 300
MULTIPV_K == 5
SEARCH_TIME_MS == 10
MAX_ATTEMPTS == 10
RETRY_FACTOR == 5
MATE_SCORE == 10000
RECV_TIMEOUT_SECS == 30

\* ------------------------------------------------------------------------
\* Bounds of the model
\* ------------------------------------------------------------------------
\* target_count, the second command line argument
TargetCount == 2
\* calls of generate_tsume explored beyond target_count
ExtraCalls == 1
\* the engine varies its moves and exits only during the first MaxVarPly
\* plies of a game, and sends evaluation updates only up to the ply after them
MaxVarPly == 1
\* non-terminal events the engine sends for one start-search command
MaxInfo == 2
\* start-search commands the engine has not answered yet
MaxPending == 2
\* ranks (multipv indices) the engine reports
MaxRank == 2

MaxCalls == TargetCount + ExtraCalls
Ranks == 1..MaxRank

\* ------------------------------------------------------------------------
\* Move tokens.  The state holds a token as a string; the functions on
\* tokens work on its characters, a sequence of one-character strings.
\* ------------------------------------------------------------------------
M1 == "1e2d"
M2 == "3a2b"
\* a token the engine never sends for this variant: too short to be a move
BadToken == "00"

Tokens == {"1e2d", "3a2b", "3e2d", "1a2b", "00"}

chars_of(t) ==
    CASE t = "1e2d" -> <<"1", "e", "2", "d">>
      [] t = "3a2b" -> <<"3", "a", "2", "b">>
      [] t = "3e2d" -> <<"3", "e", "2", "d">>
      [] t = "1a2b" -> <<"1", "a", "2", "b">>
      [] t = "00" -> <<"0", "0">>

token_of(cs) == CHOOSE t \in Tokens : chars_of(t) = cs

DigitChars == <<"0", "1", "2", "3", "4", "5", "6", "7", "8", "9">>

IsDigit(c) == \E i \in 1..10 : DigitChars[i] = c

\* char::to_digit(10) of a digit character
to_digit(c) == (CHOOSE i \in 1..10 : DigitChars[i] = c) - 1

\* a variant that leaves the file digit as it is: the property of
\* convert_move_files must tell it from file_text
file_text_unchanged(d) == <<DigitChars[d + 1]>>

\* the text of 4 - digit, a subtraction on u32: below zero the wrapping build
\* gives 2^32 - (digit - 4), that is 429496729x with x = 10 - digit
file_text(d) ==
    IF d <= 4 THEN <<DigitChars[(4 - d) + 1]>>
    ELSE <<"4", "2", "9", "4", "9", "6", "7", "2", "9", DigitChars[(10 - d) + 1]>>

convert_move_files(sfen) ==
    IF Len(sfen) >= 4 /\ sfen[2] = "*"
    THEN IF IsDigit(sfen[3])
         THEN <<sfen[1], "*">> \o file_text(to_digit(sfen[3])) \o <<sfen[4]>>
         ELSE sfen
    ELSE IF Len(sfen) >= 4 /\ IsDigit(sfen[1]) /\ IsDigit(sfen[3])
         THEN file_text(to_digit(sfen[1])) \o <<sfen[2]>>
              \o file_text(to_digit(sfen[3])) \o <<sfen[4]>>
              \o SubSeq(sfen, 5, Len(sfen))
         ELSE sfen

\* convert_move_files computes 4 - digit with a digit above 4: the subtraction
\* on u32 overflows, which panics in a build with overflow checks and wraps in
\* a build without
underflows(sfen) ==
    IF Len(sfen) >= 4 /\ sfen[2] = "*"
    THEN IsDigit(sfen[3]) /\ to_digit(sfen[3]) > 4
    ELSE /\ Len(sfen) >= 4
         /\ IsDigit(sfen[1])
         /\ IsDigit(sfen[3])
         /\ to_digit(sfen[1]) > 4 \/ to_digit(sfen[3]) > 4

\* Move::from_sfen of the rules library: Some for a well-formed token
Files == {"1", "2", "3"}
RankLetters == {"a", "b", "c", "d", "e"}
PieceLetters == {"P", "B", "R", "G", "S"}
from_sfen_ok(tok) ==
    \/ /\ Len(tok) \in {4, 5}
       /\ tok[1] \in Files /\ tok[2] \in RankLetters
       /\ tok[3] \in Files /\ tok[4] \in RankLetters
       /\ (Len(tok) = 5 => tok[5] = "+")
    \/ /\ Len(tok) = 4
       /\ tok[1] \in PieceLetters /\ tok[2] = "*"
       /\ tok[3] \in Files /\ tok[4] \in RankLetters

\* ------------------------------------------------------------------------
\* Position notation (SFEN).  A text "board side hand count [moves ...]" is
\* the record of its fields; the board reached from the starting position is
\* named by the moves applied to it.
\* ------------------------------------------------------------------------
EmptySfen == [empty |-> TRUE, board |-> <<>>, flipped |-> FALSE,
              side |-> "-", count |-> 0, moves |-> <<>>]

\* Position::to_sfen of the rules library
to_sfen(pos) == [empty |-> FALSE, board |-> pos, flipped |-> FALSE,
                 side |-> IF Len(pos) % 2 = 0 THEN "b" ELSE "w",
                 count |-> Len(pos) + 1, moves |-> <<>>]

\* the text before the first " moves" marker
position_only_sfen(sfen) == [sfen EXCEPT !.moves = <<>>]

\* shogi::sfen::mirror_sfen: flips the board and swaps the side to move
mirror_sfen(sfen) ==
    IF sfen.empty THEN sfen
    ELSE [sfen EXCEPT !.flipped = ~@,
                      !.side = IF @ = "b" THEN "w" ELSE "b"]

\* number of whitespace separated parts of the text
NumParts(sfen) ==
    IF sfen.empty THEN 0
    ELSE 4 + (IF sfen.moves = <<>> THEN 0 ELSE 1 + Len(sfen.moves))

\* mirror, then "{} {} {} 1" of the first three parts
MirrorRecord(sfen) ==
    LET flipped == mirror_sfen(sfen)
    IN IF NumParts(flipped) >= 4
       THEN [flipped EXCEPT !.count = 1, !.moves = <<>>]
       ELSE flipped

\* the argument of GuiCommand::Position built by set_position
\* a variant that leaves the last move out: the property of the position
\* command must tell it from set_position_sfen
set_position_sfen_without_last(history) ==
    [base |-> "STARTING_SFEN", moves |-> SubSeq(history, 1, Len(history) - 1)]

set_position_sfen(history) == [base |-> "STARTING_SFEN", moves |-> history]


\* ------------------------------------------------------------------------
\* Search results and engine events
\* ------------------------------------------------------------------------
NoMove == ""

\* enum SearchResult
SrMove(mv) == [tag |-> "Move", mv |-> mv]
SrCheckmate == [tag |-> "Checkmate", mv |-> NoMove]
SrResign == [tag |-> "Resign", mv |-> NoMove]

\* Option<SearchResult>, the value of get_best_move and get_worst_move
OptNone == [tag |-> "None", mv |-> NoMove]

\* Option<(Vec<PvInfo>, SearchResult)>, the value of search and search_with_time
RetNone == [some |-> FALSE, pv |-> <<>>, result |-> OptNone]
RetSome(pv, result) == [some |-> TRUE, pv |-> pv, result |-> result]

\* usi::BestMoveParams
BmMove(mv) == [kind |-> "MakeMove", mv |-> mv]
BmResign == [kind |-> "Resign", mv |-> NoMove]
BmWin == [kind |-> "Win", mv |-> NoMove]
NoBm == [kind |-> "-", mv |-> NoMove]

\* usi::InfoParams
PMultiPv(n) == [p |-> "MultiPv", n |-> n, kind |-> "-", moves |-> <<>>]
PScore(n, kind) == [p |-> "Score", n |-> n, kind |-> kind, moves |-> <<>>]
PPv(moves) == [p |-> "Pv", n |-> 0, kind |-> "-", moves |-> moves]
PDepth(n) == [p |-> "Depth", n |-> n, kind |-> "-", moves |-> <<>>]

\* usi::ScoreKind
CpKinds == {"CpExact", "CpLowerbound", "CpUpperbound"}
MateKinds == {"MateExact", "MateSignOnly", "MateLowerbound", "MateUpperbound"}

\* usi::EngineCommand as delivered by the listener; own is TRUE while the
\* event answers the start-search command of the search call in progress
EvInfo(params, own) == [type |-> "Info", params |-> params, bm |-> NoBm, own |-> own]
EvBestMove(bm, own) == [type |-> "BestMove", params |-> <<>>, bm |-> bm, own |-> own]
EvOther(own) == [type |-> "Other", params |-> <<>>, bm |-> NoBm, own |-> own]

\* the evaluation updates the engine sends
EngineInfos ==
    { <<PDepth(1), PMultiPv(1), PScore(50, "CpExact"), PPv(<<M1>>)>>,
      <<PMultiPv(2), PScore(-300, "CpExact"), PPv(<<M2, M1>>)>>,
      <<PMultiPv(2), PScore(-1, "MateExact")>>,
      <<PScore(50, "CpLowerbound"), PPv(<<M2>>)>> }

\* ------------------------------------------------------------------------
\* Engine::search_with_time, the handling of one event
\* ------------------------------------------------------------------------
\* a variant that stores the reported value for every kind: the property of
\* the stored score must tell it from score_of
score_of_raw(score, kind) == score

score_of(score, kind) ==
    IF kind \in CpKinds THEN score
    ELSE IF score > 0 THEN MATE_SCORE ELSE -MATE_SCORE

\* one step of "for param in params" on (current_multipv, current_score,
\* current_moves)
apply_param(cur, param) ==
    IF param.p = "MultiPv" THEN [cur EXCEPT !.multipv = param.n]
    ELSE IF param.p = "Score" THEN [cur EXCEPT !.score = score_of(param.n, param.kind)]
    ELSE IF param.p = "Pv" THEN [cur EXCEPT !.moves = param.moves]
    ELSE cur

RECURSIVE apply_params(_, _)
apply_params(cur, params) ==
    IF params = <<>> THEN cur
    ELSE apply_params(apply_param(cur, Head(params)), Tail(params))

\* "Store PV info when we have moves"
store_pv(pvs, cur) ==
    IF cur.moves = <<>> THEN pvs
    ELSE IF \E i \in 1..Len(pvs) : pvs[i].multipv = cur.multipv
         THEN LET i == CHOOSE k \in 1..Len(pvs) :
                          /\ pvs[k].multipv = cur.multipv
                          /\ \A j \in 1..(k - 1) : pvs[j].multipv # cur.multipv
              IN [pvs EXCEPT ![i] = [multipv |-> pvs[i].multipv,
                                     score |-> cur.score,
                                     moves |-> cur.moves]]
         ELSE Append(pvs, [multipv |-> cur.multipv, score |-> cur.score,
                           moves |-> cur.moves])

\* the terminal event's parameters as a SearchResult
bestmove_result(bm) ==
    IF bm.kind = "MakeMove" THEN SrMove(bm.mv)
    ELSE IF bm.kind = "Resign" THEN SrResign
    ELSE SrCheckmate

\* ------------------------------------------------------------------------
\* Engine::search, the retry decision and the retry's time budget
\* ------------------------------------------------------------------------
\* a variant that retries after every resignation, candidates or not: the
\* retry property must tell it from search_retry
search_retry_any_resign(pv, result) == result.tag = "Resign"

search_retry(pv, result) == result.tag = "Resign" /\ pv = <<>>

retry_time == SEARCH_TIME_MS * RETRY_FACTOR

\* ------------------------------------------------------------------------
\* Engine::get_best_move and Engine::get_worst_move on the value of search
\* ------------------------------------------------------------------------
\* a variant that passes a resignation on: the property that no Resign result
\* is selected must tell it from fallback
fallback_keeps_resign(result) ==
    IF result.tag = "Move" THEN SrMove(result.mv)
    ELSE IF result.tag = "Checkmate" THEN SrCheckmate
    ELSE SrResign

fallback(result) ==
    IF result.tag = "Move" THEN SrMove(result.mv)
    ELSE IF result.tag = "Checkmate" THEN SrCheckmate
    ELSE OptNone

\* a variant that takes the first candidate of the set whatever its rank: the
\* property of get_best_move must tell it from get_best_move
get_best_move_first_candidate(ret) ==
    IF ~ret.some THEN OptNone
    ELSE IF ret.pv # <<>> /\ ret.pv[1].moves # <<>>
         THEN SrMove(Head(ret.pv[1].moves))
         ELSE fallback(ret.result)

get_best_move(ret) ==
    IF ~ret.some THEN OptNone
    ELSE IF \E i \in 1..Len(ret.pv) :
                /\ ret.pv[i].multipv = 1
                /\ \A j \in 1..(i - 1) : ret.pv[j].multipv # 1
                /\ ret.pv[i].moves # <<>>
         THEN LET i == CHOOSE k \in 1..Len(ret.pv) :
                          /\ ret.pv[k].multipv = 1
                          /\ \A j \in 1..(k - 1) : ret.pv[j].multipv # 1
              IN SrMove(Head(ret.pv[i].moves))
         ELSE fallback(ret.result)

\* a variant that keeps the later of two elements of equal key: the property
\* of get_worst_move must tell it from min_by_score
RECURSIVE min_by_score_last(_, _)
min_by_score_last(best, rest) ==
    IF rest = <<>> THEN best
    ELSE min_by_score_last(IF best.score >= Head(rest).score THEN Head(rest) ELSE best,
                           Tail(rest))

\* Iterator::min_by_key: the fold keeps the earlier element unless the later
\* one has a strictly smaller key
RECURSIVE min_by_score(_, _)
min_by_score(best, rest) ==
    IF rest = <<>> THEN best
    ELSE min_by_score(IF best.score > Head(rest).score THEN Head(rest) ELSE best,
                      Tail(rest))

get_worst_move(ret) ==
    IF ~ret.some THEN OptNone
    ELSE LET cands == SelectSeq(ret.pv, LAMBDA pv : pv.moves # <<>>)
         IN IF cands # <<>>
            THEN SrMove(Head(min_by_score(Head(cands), Tail(cands)).moves))
            ELSE fallback(ret.result)

\* ------------------------------------------------------------------------
\* simulate_game: black plays the best move, white the worst
\* ------------------------------------------------------------------------
\* a variant in which both colours play the best move: the property of the
\* alternating roles must tell it from select_move
select_move_always_best(black, ret) == get_best_move(ret)

select_move(black, ret) ==
    IF black THEN get_best_move(ret) ELSE get_worst_move(ret)

\* ------------------------------------------------------------------------
\* generate_tsume: what the attempt loop does with the result of a game
\* ------------------------------------------------------------------------
\* a variant that takes an Error for a record: the property of translation
\* failures must tell it from generate_step
generate_step_error_as_record(kind, att) ==
    IF kind \in {"Checkmate", "Error"} THEN "return_some"
    ELSE IF att < MAX_ATTEMPTS THEN "next_attempt"
    ELSE "return_none"

\* a variant that allows one attempt more: the property of the attempt loop
\* must tell it from generate_step
generate_step_one_more(kind, att) ==
    IF kind = "Checkmate" THEN "return_some"
    ELSE IF att <= MAX_ATTEMPTS THEN "next_attempt"
    ELSE "return_none"

generate_step(kind, att) ==
    IF kind = "Checkmate" THEN "return_some"
    ELSE IF att < MAX_ATTEMPTS THEN "next_attempt"
    ELSE "return_none"

\* a variant that allows one turn more: the property of the move ceiling must
\* tell it from move_loop_continues
move_loop_continues_one_more(n) == n <= MAX_MOVES

\* simulate_game: "for _move_num in 0..MAX_MOVES" has a next turn
move_loop_continues(n) == n < MAX_MOVES

\* main: the loop condition
main_continue(cnt) == cnt < TargetCount


\* ------------------------------------------------------------------------
\* State
\* ------------------------------------------------------------------------
VARIABLES
    pc,                     \* where the program is: main, turn, go, recv, done, panic
    count,                  \* main: records written
    calls,                  \* calls of generate_tsume so far
    attempt,                \* generate_tsume: _attempt
    position,               \* simulate_game: the moves applied to Position::startpos()
    move_history,           \* simulate_game
    is_black_turn,          \* simulate_game
    sfen_before_last_move,  \* simulate_game
    move_num,               \* simulate_game: _move_num
    current_sfen,           \* simulate_game
    pv_infos,               \* search_with_time
    current_multipv,        \* search_with_time
    current_score,          \* search_with_time
    current_moves,          \* search_with_time
    time_ms,                \* search_with_time: the time budget of the call
    in_retry,               \* search: the call in progress is the one of line 276
    rx,                     \* Engine.rx: events delivered and not yet received
    pending,                \* engine: start-search commands not answered yet
    alive,                  \* engine: the process runs and its pipe is open
    sent_position,          \* engine: the last position command received
    game_result,            \* the value of the last finished simulate_game
    gen_ret,                \* the value of the last finished generate_tsume
    search_ret,             \* the value of the last finished search
    sel,                    \* the value of the last get_best_move / get_worst_move
    go_log,                 \* start-search commands of the search call in progress
    first_ret,              \* what the first search_with_time of that call returned
    infos_seen,             \* Info events received by the search_with_time in progress
    last_bm,                \* the terminal event that search_with_time received
    fn_arg,                 \* the argument of a function applied on its own
    fn_res                  \* the values the function returned for it

ctlVars == <<pc, count, calls, attempt>>
gameVars == <<position, move_history, is_black_turn, sfen_before_last_move,
              move_num, current_sfen>>
accVars == <<pv_infos, current_multipv, current_score, current_moves>>
callVars == <<time_ms, in_retry>>
chanVars == <<rx, pending, alive>>
logVars == <<go_log, first_ret, infos_seen, last_bm>>
fnVars == <<fn_arg, fn_res>>
vars == <<pc, count, calls, attempt, position, move_history, is_black_turn,
          sfen_before_last_move, move_num, current_sfen, pv_infos,
          current_multipv, current_score, current_moves, time_ms, in_retry,
          rx, pending, alive, sent_position, game_result, gen_ret, search_ret,
          sel, go_log, first_ret, infos_seen, last_bm, fn_arg, fn_res>>

NoGame == [kind |-> "-", sfen |-> EmptySfen, raw |-> EmptySfen, mirrored |-> FALSE,
           cause |-> "-", final_pos |-> <<>>, history |-> <<>>, black |-> TRUE]
NoGen == [tag |-> "-", sfen |-> EmptySfen]
NoRet == [some |-> FALSE, pv |-> <<>>, result |-> [tag |-> "-", mv |-> NoMove]]
NoSel == [tag |-> "-", mv |-> NoMove]
NoLastBm == [bm |-> NoBm, own |-> TRUE]
NoPosition == [base |-> "-", moves |-> <<>>]

InitRest ==
    /\ count = 0
    /\ calls = 0
    /\ attempt = 1
    /\ position = <<>>
    /\ move_history = <<>>
    /\ sfen_before_last_move = EmptySfen
    /\ move_num = 0
    /\ current_sfen = EmptySfen
    /\ pv_infos = <<>>
    /\ current_multipv = 1
    /\ current_score = 0
    /\ current_moves = <<>>
    /\ time_ms = SEARCH_TIME_MS
    /\ in_retry = FALSE
    /\ rx = <<>>
    /\ pending = <<>>
    /\ alive = TRUE
    /\ sent_position = NoPosition
    /\ game_result = NoGame
    /\ gen_ret = NoGen
    /\ sel = NoSel
    /\ go_log = <<>>
    /\ first_ret = NoRet
    /\ infos_seen = <<>>
    /\ last_bm = NoLastBm

\* no function is applied on its own
NoFn ==
    /\ fn_arg = <<>>
    /\ fn_res = <<>>

\* the state after Engine::spawn, when main enters its loop
Init ==
    /\ pc = "main"
    /\ is_black_turn = TRUE
    /\ search_ret = NoRet
    /\ InitRest
    /\ NoFn

\* ------------------------------------------------------------------------
\* simulate_game, generate_tsume and main: how a game ends
\* ------------------------------------------------------------------------
\* the locals of a search call that has returned are gone
ClearSearch ==
    /\ pv_infos' = <<>>
    /\ current_multipv' = 1
    /\ current_score' = 0
    /\ current_moves' = <<>>
    /\ search_ret' = NoRet
    /\ sel' = NoSel
    /\ go_log' = <<>>
    /\ first_ret' = NoRet
    /\ infos_seen' = <<>>
    /\ last_bm' = NoLastBm

\* the locals of simulate_game as a new call initialises them
NewGame ==
    /\ position' = <<>>
    /\ move_history' = <<>>
    /\ is_black_turn' = TRUE
    /\ sfen_before_last_move' = EmptySfen
    /\ move_num' = 0
    /\ current_sfen' = EmptySfen

\* simulate_game returns; generate_tsume starts the next attempt or returns to
\* main, which writes the record and counts it
EndGame(kind, sfen, mirrored, why) ==
    LET step == generate_step(kind, attempt)
    IN /\ game_result' = [kind |-> kind, sfen |-> sfen,
                          raw |-> sfen_before_last_move, mirrored |-> mirrored,
                          cause |-> why, final_pos |-> position,
                          history |-> move_history,
                          black |-> is_black_turn]
       /\ NewGame
       /\ pc' = IF step = "next_attempt" THEN "turn" ELSE "main"
       /\ attempt' = IF step = "next_attempt" THEN attempt + 1 ELSE attempt
       /\ gen_ret' = IF step = "return_some" THEN [tag |-> "Some", sfen |-> sfen]
                     ELSE IF step = "return_none" THEN [tag |-> "None", sfen |-> EmptySfen]
                     ELSE NoGen
       /\ count' = IF step = "return_some" THEN count + 1 ELSE count
       /\ calls' = calls

\* the record of a terminal turn: mirrored when flip holds
TerminalRecord(flip) ==
    IF flip THEN MirrorRecord(sfen_before_last_move) ELSE sfen_before_last_move

\* the match on the move result in simulate_game; legal is the answer of
\* Position::make_move
Simulate(s, why, legal) ==
    IF s.tag = "None"
    THEN EndGame("Checkmate", TerminalRecord(is_black_turn), is_black_turn, why)
    ELSE IF s.tag = "Checkmate"
    THEN EndGame("Checkmate", TerminalRecord(~is_black_turn), ~is_black_turn, why)
    ELSE IF s.tag = "Move"
    THEN LET converted_move == token_of(convert_move_files(chars_of(s.mv)))
         IN IF ~from_sfen_ok(chars_of(converted_move))
            THEN EndGame("Error", EmptySfen, FALSE, "parse")
            ELSE IF ~legal
            THEN EndGame("Error", EmptySfen, FALSE, "illegal")
            ELSE /\ sfen_before_last_move' = current_sfen
                 /\ position' = Append(position, converted_move)
                 /\ move_history' = Append(move_history, s.mv)
                 /\ is_black_turn' = ~is_black_turn
                 /\ move_num' = move_num + 1
                 /\ current_sfen' = EmptySfen
                 /\ pc' = "turn"
                 /\ UNCHANGED <<count, calls, attempt, game_result, gen_ret>>
    ELSE /\ pc' = "panic"
         /\ UNCHANGED <<count, calls, attempt, game_result, gen_ret, gameVars>>

\* search has returned ret: the selection, then the match of simulate_game
AfterSearch(ret, why, legal) ==
    LET s == select_move(is_black_turn, ret)
    IN /\ search_ret' = ret
       /\ sel' = s
       /\ time_ms' = SEARCH_TIME_MS
       /\ in_retry' = FALSE
       /\ Simulate(s, why, legal)

\* ------------------------------------------------------------------------
\* Program steps
\* ------------------------------------------------------------------------
\* main: the loop condition holds, generate_tsume starts its first attempt
MainCall ==
    /\ pc = "main"
    /\ main_continue(count)
    /\ calls < MaxCalls
    /\ calls' = calls + 1
    /\ attempt' = 1
    /\ pc' = "turn"
    /\ gen_ret' = NoGen
    /\ game_result' = NoGame
    /\ ClearSearch
    /\ UNCHANGED <<count, gameVars, callVars, chanVars, sent_position>>
    /\ UNCHANGED fnVars

\* main: the loop ends and the program exits; its locals are gone
MainExit ==
    /\ pc = "main"
    /\ ~main_continue(count)
    /\ pc' = "done"
    /\ game_result' = NoGame
    /\ gen_ret' = NoGen
    /\ ClearSearch
    /\ rx' = <<>>
    /\ pending' = <<>>
    /\ sent_position' = NoPosition
    /\ UNCHANGED <<count, calls, attempt, gameVars, callVars, alive>>
    /\ UNCHANGED fnVars

\* simulate_game: the move ceiling is reached
TurnCeiling ==
    /\ pc = "turn"
    /\ ~move_loop_continues(move_num)
    /\ EndGame("NoResult", EmptySfen, FALSE, "ceiling")
    /\ ClearSearch
    /\ UNCHANGED <<callVars, chanVars, sent_position>>
    /\ UNCHANGED fnVars

\* simulate_game: set_position cannot send.  The engine is gone: what is left
\* in the queue is never read again
TurnSendFails ==
    /\ pc = "turn"
    /\ move_loop_continues(move_num)
    /\ ~alive
    /\ EndGame("Error", EmptySfen, FALSE, "set_position")
    /\ ClearSearch
    /\ rx' = <<>>
    /\ UNCHANGED <<callVars, pending, alive, sent_position>>
    /\ UNCHANGED fnVars

\* simulate_game: a turn starts, the position is sent and search is entered
TurnSetPosition ==
    /\ pc = "turn"
    /\ move_loop_continues(move_num)
    /\ alive
    /\ current_sfen' = position_only_sfen(to_sfen(position))
    /\ sent_position' = set_position_sfen(move_history)
    /\ time_ms' = SEARCH_TIME_MS
    /\ in_retry' = FALSE
    /\ ClearSearch
    /\ game_result' = NoGame
    /\ pc' = "go"
    /\ UNCHANGED <<count, calls, attempt, gen_ret, position, move_history,
                   is_black_turn, sfen_before_last_move, move_num, chanVars>>
    /\ UNCHANGED fnVars

\* search_with_time: the start-search command cannot be sent
GoSendFails ==
    /\ pc = "go"
    /\ ~alive
    /\ go_log' = Append(go_log, [time |-> time_ms, sent |-> FALSE])
    /\ first_ret' = IF in_retry THEN first_ret ELSE RetNone
    /\ AfterSearch(RetNone, "send", TRUE)
    /\ rx' = <<>>
    /\ UNCHANGED <<accVars, pending, alive, sent_position, infos_seen, last_bm>>
    /\ UNCHANGED fnVars

\* search_with_time: the start-search command is sent, the accumulators start
GoSend ==
    /\ pc = "go"
    /\ alive
    /\ go_log' = Append(go_log, [time |-> time_ms, sent |-> TRUE])
    /\ pending' = Append([i \in 1..Len(pending) |-> [pending[i] EXCEPT !.own = FALSE]],
                         [own |-> TRUE, n |-> 0])
    /\ rx' = [i \in 1..Len(rx) |-> [rx[i] EXCEPT !.own = FALSE]]
    /\ pv_infos' = <<>>
    /\ current_multipv' = 1
    /\ current_score' = 0
    /\ current_moves' = <<>>
    /\ infos_seen' = <<>>
    /\ last_bm' = NoLastBm
    /\ pc' = "recv"
    /\ UNCHANGED <<count, calls, attempt, gameVars, callVars, alive, sent_position,
                   game_result, gen_ret, search_ret, sel, first_ret>>
    /\ UNCHANGED fnVars

\* search_with_time: an Info event is received
RecvInfo ==
    /\ pc = "recv"
    /\ rx # <<>>
    /\ Head(rx).type = "Info"
    /\ LET cur == apply_params([multipv |-> current_multipv, score |-> current_score,
                                moves |-> current_moves], Head(rx).params)
       IN /\ current_multipv' = cur.multipv
          /\ current_score' = cur.score
          /\ current_moves' = cur.moves
          /\ pv_infos' = store_pv(pv_infos, cur)
    /\ infos_seen' = Append(infos_seen, Head(rx).params)
    /\ rx' = Tail(rx)
    /\ UNCHANGED <<ctlVars, gameVars, callVars, pending, alive, sent_position,
                   game_result, gen_ret, search_ret, sel, go_log, first_ret, last_bm>>
    /\ UNCHANGED fnVars

\* search_with_time: any other response is received and skipped
RecvOther ==
    /\ pc = "recv"
    /\ rx # <<>>
    /\ Head(rx).type = "Other"
    /\ rx' = Tail(rx)
    /\ UNCHANGED <<ctlVars, gameVars, accVars, callVars, pending, alive,
                   sent_position, game_result, gen_ret, search_ret, sel, logVars>>
    /\ UNCHANGED fnVars

\* search_with_time: the terminal event is received; search retries or returns
RecvBestMove ==
    /\ pc = "recv"
    /\ rx # <<>>
    /\ Head(rx).type = "BestMove"
    /\ rx' = Tail(rx)
    /\ last_bm' = [bm |-> Head(rx).bm, own |-> Head(rx).own]
    /\ LET result == bestmove_result(Head(rx).bm)
           ret == RetSome(pv_infos, result)
       IN /\ first_ret' = IF in_retry THEN first_ret ELSE ret
          /\ IF ~in_retry /\ search_retry(pv_infos, result)
             THEN /\ in_retry' = TRUE
                  /\ time_ms' = retry_time
                  /\ pc' = "go"
                  /\ UNCHANGED <<count, calls, attempt, gameVars, game_result,
                                 gen_ret, search_ret, sel>>
             ELSE \E legal \in BOOLEAN : AfterSearch(ret, Head(rx).bm.kind, legal)
    /\ UNCHANGED <<accVars, pending, alive, sent_position, go_log, infos_seen>>
    /\ UNCHANGED fnVars

\* search_with_time: nothing arrives within the maximum wait (or the channel
\* is closed): the call fails
RecvTimeout ==
    /\ pc = "recv"
    /\ rx = <<>>
    /\ ~alive \/ Len(pending) < MaxPending
    /\ first_ret' = IF in_retry THEN first_ret ELSE RetNone
    /\ AfterSearch(RetNone, "timeout", TRUE)
    /\ UNCHANGED <<accVars, chanVars, sent_position, go_log, infos_seen, last_bm>>
    /\ UNCHANGED fnVars

\* ------------------------------------------------------------------------
\* The engine process and the listener
\* ------------------------------------------------------------------------
\* the part of a game in which the engine varies its moves, sends responses
\* that are neither Info nor BestMove, and may exit
EngineVaries == Len(move_history) < MaxVarPly

\* the channel carries nothing of an earlier search call
InStep ==
    /\ Len(pending) = 1
    /\ Head(pending).own
    /\ \A i \in 1..Len(rx) : rx[i].own

\* the game so far followed the engine's main line
MainLine == \A i \in 1..Len(move_history) : move_history[i] = M1

\* the searches in which the engine sends evaluation updates: those of the
\* first MaxVarPly plies and, on its main line, of the ply after them, so that
\* both colours select among candidates
EngineReports == EngineVaries \/ (Len(move_history) <= MaxVarPly /\ MainLine)

\* the part of a game in which the engine may end it with a win signal or a
\* resignation: both colours have been to move with a move behind them
EngineEnds == Len(move_history) <= MaxVarPly + 1

\* the terminal events the engine answers with when it does not move
EngineVerdicts == IF EngineEnds THEN {BmResign, BmWin} ELSE {}

\* the moves the engine answers with: past the first MaxVarPly plies it plays
\* on, along its main line, only while the channel is in step
EngineMoves ==
    IF EngineVaries THEN {M1, M2, BadToken}
    ELSE IF InStep /\ MainLine THEN {M1}
    ELSE {}

\* The program reads the queue only in the blocking read of search_with_time,
\* one event at a time and in the order of delivery: an event delivered while
\* the program runs, or while earlier events wait in the queue, is delivered,
\* in the model, when the read finds the queue empty.

\* an evaluation update for the oldest unanswered start-search command; the
\* engine sends them only while the channel is in step
EngineInfo ==
    /\ pc = "recv"
    /\ rx = <<>>
    /\ alive
    /\ pending # <<>>
    /\ InStep
    /\ EngineReports
    /\ Head(pending).n < MaxInfo
    /\ \E params \in EngineInfos :
           rx' = Append(rx, EvInfo(params, Head(pending).own))
    /\ pending' = [pending EXCEPT ![1].n = @ + 1]
    /\ UNCHANGED <<ctlVars, gameVars, accVars, callVars, alive, sent_position,
                   game_result, gen_ret, search_ret, sel, logVars>>
    /\ UNCHANGED fnVars

\* a response that is neither Info nor BestMove
EngineOther ==
    /\ pc = "recv"
    /\ rx = <<>>
    /\ alive
    /\ pending # <<>>
    /\ InStep
    /\ EngineVaries
    /\ Head(pending).n < MaxInfo
    /\ rx' = Append(rx, EvOther(Head(pending).own))
    /\ pending' = [pending EXCEPT ![1].n = @ + 1]
    /\ UNCHANGED <<ctlVars, gameVars, accVars, callVars, alive, sent_position,
                   game_result, gen_ret, search_ret, sel, logVars>>
    /\ UNCHANGED fnVars

\* the terminal event of the oldest unanswered start-search command
EngineBestMove ==
    /\ pc = "recv"
    /\ rx = <<>>
    /\ alive
    /\ pending # <<>>
    /\ \E bm \in {BmMove(mv) : mv \in EngineMoves} \cup EngineVerdicts :
           rx' = Append(rx, EvBestMove(bm, Head(pending).own))
    /\ pending' = Tail(pending)
    /\ UNCHANGED <<ctlVars, gameVars, accVars, callVars, alive, sent_position,
                   game_result, gen_ret, search_ret, sel, logVars>>
    /\ UNCHANGED fnVars

\* the engine process exits: nothing more is delivered, every send fails
EngineExit ==
    /\ alive
    /\ pc \in {"turn", "go", "recv"}
    /\ EngineVaries
    /\ alive' = FALSE
    /\ pending' = <<>>
    /\ sent_position' = NoPosition
    /\ UNCHANGED <<ctlVars, gameVars, accVars, callVars, rx, game_result, gen_ret,
                   search_ret, sel, logVars>>
    /\ UNCHANGED fnVars

Next ==
    \/ MainCall
    \/ MainExit
    \/ TurnCeiling
    \/ TurnSendFails
    \/ TurnSetPosition
    \/ GoSendFails
    \/ GoSend
    \/ RecvInfo
    \/ RecvOther
    \/ RecvBestMove
    \/ RecvTimeout
    \/ EngineInfo
    \/ EngineOther
    \/ EngineBestMove
    \/ EngineExit

Spec == Init /\ [][Next]_vars


\* ------------------------------------------------------------------------
\* The selection functions on their own: search has returned a candidate set
\* and a terminal outcome, and get_best_move (black) or get_worst_move (white)
\* selects from them
\* ------------------------------------------------------------------------
CandScores == {-300, 50}
CandLines == {<<M1>>, <<M2, M1>>}
Candidates == {[multipv |-> r, score |-> sc, moves |-> l] :
                  r \in Ranks, sc \in CandScores, l \in CandLines}

\* what search_with_time can collect: one candidate per rank, in any order,
\* each with at least one move
CandidateSets ==
    {<<>>} \cup
    UNION {{q \in [1..n -> Candidates] :
               \A i, j \in 1..n : i # j => q[i].multipv # q[j].multipv} :
           n \in 1..MaxRank}

TerminalResults == {SrMove(M1), SrMove(M2), SrCheckmate, SrResign}

InitSelect ==
    /\ pc = "select"
    /\ is_black_turn \in BOOLEAN
    /\ search_ret \in {RetSome(pv, r) : pv \in CandidateSets, r \in TerminalResults}
    /\ InitRest
    /\ NoFn

SelectBest ==
    /\ pc = "select"
    /\ is_black_turn
    /\ sel' = get_best_move(search_ret)
    /\ pc' = "selected"
    /\ UNCHANGED <<count, calls, attempt, gameVars, accVars, callVars, chanVars,
                   sent_position, game_result, gen_ret, search_ret, logVars>>
    /\ UNCHANGED fnVars

SelectWorst ==
    /\ pc = "select"
    /\ ~is_black_turn
    /\ sel' = get_worst_move(search_ret)
    /\ pc' = "selected"
    /\ UNCHANGED <<count, calls, attempt, gameVars, accVars, callVars, chanVars,
                   sent_position, game_result, gen_ret, search_ret, logVars>>
    /\ UNCHANGED fnVars

NextSelect == SelectBest \/ SelectWorst

SpecSelect == InitSelect /\ [][NextSelect]_vars


\* ------------------------------------------------------------------------
\* Properties of the generator
\* ------------------------------------------------------------------------
\* the terminal events meaning checkmate or no legal reply
TerminalCauses == {"Win", "Resign"}

\* C1: a puzzle record is emitted only when the last search of the game ended
\* with a win signal or a resignation; a search whose blocking read timed out
\* ends the attempt with the Error outcome and yields no record.
C1_RecordOnlyAfterTerminalEvent ==
    /\ game_result.kind = "Checkmate" => game_result.cause \in TerminalCauses
    /\ game_result.cause = "timeout" =>
           /\ game_result.kind = "Error"
           /\ gen_ret.tag # "Some"

\* C2: every record simulate_game returns has black as its side to move,
\* whichever terminal kind produced it and whichever colour was to move; a
\* mirrored record has its move counter reset to 1.
C2_RecordBlackToMove ==
    game_result.kind = "Checkmate" =>
        /\ game_result.sfen.side = "b"
        /\ game_result.mirrored => game_result.sfen.count = 1

\* C3: the record of a checkmate result is, before the optional mirroring, the
\* position immediately before the last applied move, a position that occurred
\* in the game, at every turn where the terminal can occur (the first included).
C3_RecordIsPositionBeforeLastMove ==
    game_result.kind = "Checkmate" =>
        /\ ~game_result.raw.empty
        /\ Len(game_result.final_pos) >= 1
        /\ game_result.raw =
               position_only_sfen(to_sfen(SubSeq(game_result.final_pos, 1,
                                                 Len(game_result.final_pos) - 1)))

\* C4: main calls generate_tsume at most target_count times: a slot whose
\* attempts are exhausted is a miss and main moves on to the next slot.
C4_AtMostTargetCountCalls == calls <= TargetCount

\* C5: one call of generate_tsume runs at most MAX_ATTEMPTS games; a checkmate
\* result ends the call with that record; NoResult and Error alike lead to the
\* next attempt, and to a return without a puzzle (and without a panic)
\* exactly when the attempt that failed was attempt MAX_ATTEMPTS.
C5_AttemptLoop ==
    /\ attempt \in 1..MAX_ATTEMPTS
    /\ pc # "panic"
    /\ game_result.kind = "Checkmate" =>
           /\ pc = "main"
           /\ gen_ret = [tag |-> "Some", sfen |-> game_result.sfen]
    /\ game_result.kind \in {"NoResult", "Error"} =>
           \/ pc = "turn" /\ gen_ret = NoGen /\ attempt \in 2..MAX_ATTEMPTS /\ move_num = 0
           \/ pc = "main" /\ gen_ret.tag = "None" /\ attempt = MAX_ATTEMPTS
    /\ gen_ret.tag = "None" =>
           /\ attempt = MAX_ATTEMPTS
           /\ game_result.kind \in {"NoResult", "Error"}
    /\ gen_ret.tag = "Some" => game_result.kind = "Checkmate"

\* the last of the MAX_ATTEMPTS attempts ran into the move ceiling and the call
\* returned without a puzzle
C5_Witness ==
    /\ gen_ret.tag = "None"
    /\ game_result.kind = "NoResult"
    /\ attempt = MAX_ATTEMPTS
    /\ pc = "main"

\* C6: one call of Engine::search sends at most two start-search commands; the
\* second is sent exactly when the first search ended in resignation with no
\* candidates, with 5 times the normal time budget (50 instead of 10), and what
\* it yields is returned as it is, with no further retry.
C6_SearchRetry ==
    /\ Len(go_log) <= 2
    /\ Len(go_log) >= 1 => go_log[1].time = SEARCH_TIME_MS /\ go_log[1].time = 10
    /\ Len(go_log) = 2 =>
           /\ go_log[2].time = 5 * SEARCH_TIME_MS
           /\ go_log[2].time = 50
           /\ first_ret = RetSome(<<>>, SrResign)
    /\ first_ret = RetSome(<<>>, SrResign) =>
           \/ Len(go_log) = 2
           \/ Len(go_log) = 1 /\ pc = "go" /\ in_retry /\ time_ms = 50
    /\ (Len(go_log) = 1 /\ search_ret # NoRet) => search_ret = first_ret
    /\ (Len(go_log) = 2 /\ search_ret # NoRet) =>
           search_ret = IF ~go_log[2].sent \/ last_bm.bm = NoBm THEN RetNone
                        ELSE RetSome(pv_infos, bestmove_result(last_bm.bm))

\* the second search again ended in resignation with no candidates and that
\* was returned
C6_Witness ==
    /\ Len(go_log) = 2
    /\ go_log[2].sent
    /\ search_ret = RetSome(<<>>, SrResign)

\* the terminal events waiting in the queue
QueuedBestMoves == {i \in 1..Len(rx) : rx[i].type = "BestMove"}

\* C7: at every moment at most one search is outstanding, and every terminal
\* event a search call consumes answers that call's own start-search command.
C7_OneOutstandingSearch ==
    /\ Len(pending) + Cardinality(QueuedBestMoves) <= 1
    /\ last_bm.own

\* the parameters of one evaluation update
HasParam(params, p) == \E k \in 1..Len(params) : params[k].p = p
LastParam(params, p) ==
    params[CHOOSE k \in 1..Len(params) :
               /\ params[k].p = p
               /\ \A j \in (k + 1)..Len(params) : params[j].p # p]

\* the updates received so far that reported rank r with a non-empty move line
UpdatesOf(r) ==
    {j \in 1..Len(infos_seen) :
        /\ HasParam(infos_seen[j], "MultiPv")
        /\ LastParam(infos_seen[j], "MultiPv").n = r
        /\ HasParam(infos_seen[j], "Pv")
        /\ LastParam(infos_seen[j], "Pv").moves # <<>>}

\* C8: the candidate set holds at most one candidate per rank, and the
\* candidate of rank r carries the score and the moves of the most recent
\* update that reported rank r with a non-empty move line, never those of an
\* update about another rank or without a rank or a move line.
C8_CandidateOfRank ==
    \A i \in 1..Len(pv_infos) :
        /\ \A j \in 1..Len(pv_infos) : j # i => pv_infos[j].multipv # pv_infos[i].multipv
        /\ UpdatesOf(pv_infos[i].multipv) # {}
        /\ LET js == UpdatesOf(pv_infos[i].multipv)
               last == CHOOSE j \in js : \A k \in js : k <= j
               update == infos_seen[last]
           IN /\ pv_infos[i].moves = LastParam(update, "Pv").moves
              /\ HasParam(update, "Score") =>
                     pv_infos[i].score = score_of(LastParam(update, "Score").n,
                                                  LastParam(update, "Score").kind)

\* what the selection was made from
SelPv == search_ret.pv
SelResult == search_ret.result
RankOne == {i \in 1..Len(SelPv) : SelPv[i].multipv = 1}

\* C9: get_best_move returns the first move of the rank-1 candidate when there
\* is one, whatever the terminal outcome; otherwise the terminal move, or
\* Checkmate for a win signal, or no move available for a resignation.
C9_BestMove ==
    (pc = "selected" /\ is_black_turn) =>
        IF RankOne # {}
        THEN \A i \in RankOne : sel = SrMove(SelPv[i].moves[1])
        ELSE /\ SelResult.tag = "Move" => sel = SrMove(SelResult.mv)
             /\ SelResult.tag = "Checkmate" => sel = SrCheckmate
             /\ SelResult.tag = "Resign" => sel = OptNone

\* a resignation arrived, and the rank-1 candidate, which is not the first of
\* the set, decided
C9_Witness ==
    /\ pc = "selected"
    /\ is_black_turn
    /\ SelResult.tag = "Resign"
    /\ Len(SelPv) = 2
    /\ SelPv[2].multipv = 1
    /\ SelPv[1].moves[1] # SelPv[2].moves[1]
    /\ sel = SrMove(SelPv[2].moves[1])

\* C10: get_worst_move returns the first move of a candidate of minimum score,
\* the first such candidate in the set's order when several have that score;
\* with no candidate it falls back on the terminal outcome as get_best_move does.
C10_WorstMove ==
    (pc = "selected" /\ ~is_black_turn) =>
        IF SelPv # <<>>
        THEN \E i \in 1..Len(SelPv) :
                 /\ \A j \in 1..Len(SelPv) : SelPv[i].score <= SelPv[j].score
                 /\ \A j \in 1..(i - 1) : SelPv[j].score > SelPv[i].score
                 /\ sel = SrMove(SelPv[i].moves[1])
        ELSE /\ SelResult.tag = "Move" => sel = SrMove(SelResult.mv)
             /\ SelResult.tag = "Checkmate" => sel = SrCheckmate
             /\ SelResult.tag = "Resign" => sel = OptNone

\* two candidates share the minimum score and the first of them decided
C10_Witness ==
    /\ pc = "selected"
    /\ ~is_black_turn
    /\ Len(SelPv) = 2
    /\ SelPv[1].score = SelPv[2].score
    /\ SelPv[1].moves[1] # SelPv[2].moves[1]
    /\ sel = SrMove(SelPv[1].moves[1])

\* C11: simulate_game plays at most MAX_MOVES plies: the move history never
\* holds more than MAX_MOVES tokens, no position or search command is issued
\* after ply MAX_MOVES, and NoResult is returned exactly when MAX_MOVES moves
\* were applied.
C11_MoveCeiling ==
    /\ Len(move_history) <= MAX_MOVES
    /\ Len(position) = Len(move_history)
    /\ move_num = Len(move_history)
    /\ pc \in {"go", "recv"} => Len(move_history) < MAX_MOVES
    /\ sent_position # NoPosition => Len(sent_position.moves) < MAX_MOVES
    /\ game_result.kind = "NoResult" <=>
           (game_result.kind # "-" /\ Len(game_result.history) = MAX_MOVES)
    /\ game_result.kind = "NoResult" =>
           /\ Len(game_result.final_pos) = MAX_MOVES
           /\ game_result.cause = "ceiling"

\* a game ran through MAX_MOVES applied moves and ended without a result
C11_Witness ==
    /\ game_result.kind = "NoResult"
    /\ Len(game_result.history) = MAX_MOVES
    /\ Len(sent_position.moves) = MAX_MOVES - 1

\* the translation of the selected move has no parse
SelUnparsable ==
    /\ sel.tag = "Move"
    /\ ~from_sfen_ok(convert_move_files(chars_of(sel.mv)))

\* C12: when the translated token cannot be parsed or the rules library
\* rejects the move, simulate_game returns Error: the history is the one the
\* turn started with, the turn is not flipped, no record comes from the
\* attempt, and generate_tsume starts its next attempt (or, after the last
\* one, returns without a puzzle).
C12_TranslationFailure ==
    /\ SelUnparsable => game_result.cause = "parse"
    /\ game_result.cause \in {"parse", "illegal"} =>
           /\ game_result.kind = "Error"
           /\ game_result.sfen = EmptySfen
           /\ Len(game_result.history) = Len(game_result.final_pos)
           /\ game_result.black = (Len(game_result.history) % 2 = 0)
           /\ sent_position # NoPosition =>
                  game_result.history = sent_position.moves
           /\ gen_ret.tag # "Some"
           /\ \/ /\ pc = "turn"
                 /\ gen_ret = NoGen
                 /\ attempt \in 2..MAX_ATTEMPTS
                 /\ move_history = <<>>
                 /\ position = <<>>
                 /\ is_black_turn
              \/ /\ pc = "main"
                 /\ gen_ret.tag = "None"
                 /\ attempt = MAX_ATTEMPTS

\* white's move at ply 1 was rejected by the rules library and the next
\* attempt starts
C12_Witness ==
    /\ game_result.cause = "illegal"
    /\ game_result.kind = "Error"
    /\ game_result.history = <<M1>>
    /\ ~game_result.black
    /\ pc = "turn"
    /\ attempt = 2

\* the causes that are a failure to send a command to the engine
SendFailures == {"set_position", "send"}

\* C13: a failure to send a command to the engine aborts the process; it is
\* never turned into the outcome of a game (retried, or a puzzle record).
C13_SendFailureAborts ==
    game_result.kind \in {"Checkmate", "Error", "NoResult"} =>
        game_result.cause \notin SendFailures

\* the ply at which the selection held in sel was made
SelPly ==
    IF game_result.kind # "-" THEN Len(game_result.history)
    ELSE Len(move_history) - 1

\* C14: the roles alternate starting with black: at the start of every turn
\* is_black_turn holds exactly when the move history has even length, and the
\* turn at ply n selects with Best when n is even and with Worst when n is odd.
C14_RolesAlternate ==
    /\ pc \in {"turn", "go", "recv"} =>
           is_black_turn = (Len(move_history) % 2 = 0)
    /\ sel # NoSel =>
           /\ SelPly >= 0
           /\ sel = IF SelPly % 2 = 0 THEN get_best_move(search_ret)
                    ELSE get_worst_move(search_ret)

\* white, at ply 1, played the worst candidate, which is not the best one
C14_Witness ==
    /\ pc = "turn"
    /\ Len(move_history) = 2
    /\ is_black_turn
    /\ SelPly = 1
    /\ sel = get_worst_move(search_ret)
    /\ sel # get_best_move(search_ret)

\* ------------------------------------------------------------------------
\* convert_move_files on its own: it is applied to a token, then to its result
\* ------------------------------------------------------------------------
\* the largest file digit of the tokens
MaxFileDigit == 5

FileDigits == {DigitChars[d + 1] : d \in 0..MaxFileDigit}
TokenRanks == {"a", "e"}
TokenPieces == {"P", "R"}
TokenSuffixes == {<<>>, <<"+">>}

\* from/to moves with and without the promotion suffix
MoveTokens ==
    {<<f1, r1, f2, r2>> \o sfx :
        f1 \in FileDigits, r1 \in TokenRanks, f2 \in FileDigits, r2 \in TokenRanks,
        sfx \in TokenSuffixes}

\* drop moves
DropTokens ==
    {<<p, "*", f, r>> : p \in TokenPieces, f \in FileDigits, r \in TokenRanks}

\* texts that are no move tokens: too short, a file that is no digit, a drop
\* followed by more text
OtherTokens ==
    {<<"0", "0">>, <<"x", "a", "1", "b">>, <<"1", "a", "x", "b">>,
     <<"P", "*", "x", "b">>, <<"P", "*", "1", "b", "+">>}

InitConvert ==
    /\ pc = "convert"
    /\ fn_arg \in MoveTokens \cup DropTokens \cup OtherTokens
    /\ fn_res = <<>>
    /\ is_black_turn = TRUE
    /\ search_ret = NoRet
    /\ InitRest

\* the token the next application is given
ConvertInput == IF pc = "convert" THEN fn_arg ELSE fn_res[1]

ConvertOnce ==
    /\ pc = "convert"
    /\ fn_res' = <<convert_move_files(fn_arg)>>
    /\ pc' = "converted"
    /\ UNCHANGED <<count, calls, attempt, gameVars, accVars, callVars, chanVars,
                   sent_position, game_result, gen_ret, search_ret, sel, logVars,
                   fn_arg>>

ConvertTwice ==
    /\ pc = "converted"
    /\ fn_res' = Append(fn_res, convert_move_files(fn_res[1]))
    /\ pc' = "converted_twice"
    /\ UNCHANGED <<count, calls, attempt, gameVars, accVars, callVars, chanVars,
                   sent_position, game_result, gen_ret, search_ret, sel, logVars,
                   fn_arg>>

\* the build checks overflow and the subtraction panics
ConvertPanics ==
    /\ pc \in {"convert", "converted"}
    /\ underflows(ConvertInput)
    /\ pc' = "panic"
    /\ UNCHANGED <<count, calls, attempt, gameVars, accVars, callVars, chanVars,
                   sent_position, game_result, gen_ret, search_ret, sel, logVars,
                   fnVars>>

NextConvert == ConvertOnce \/ ConvertTwice \/ ConvertPanics

SpecConvert == InitConvert /\ [][NextConvert]_vars

\* the places of the file coordinates in a move token
FilePositions(tok) ==
    IF Len(tok) >= 4 /\ tok[2] = "*" THEN {3}
    ELSE IF Len(tok) >= 4 THEN {1, 3}
    ELSE {}

\* res is tok with every file digit f replaced by the digit 4 - f and
\* everything else unchanged
FilesFlipped(tok, res) ==
    /\ Len(res) = Len(tok)
    /\ \A i \in 1..Len(tok) :
           IF i \in FilePositions(tok)
           THEN IsDigit(res[i]) /\ to_digit(res[i]) = 4 - to_digit(tok[i])
           ELSE res[i] = tok[i]

\* what is asked of convert_move_files applied to the move token fn_arg, and
\* then to its result
ConvertsAndReturns ==
    /\ pc # "panic"
    /\ pc \in {"converted", "converted_twice"} => FilesFlipped(fn_arg, fn_res[1])
    /\ pc = "converted_twice" => fn_res[2] = fn_arg

\* the file digits of fn_arg are at most 4
FilesInRange == \A i \in FilePositions(fn_arg) : to_digit(fn_arg[i]) <= 4

\* C15, as stated: for every from/to move (with or without promotion suffix)
\* and every drop move whose file coordinates are digits, convert_move_files
\* replaces each file digit f by 4 - f, leaves the rest unchanged, and applied
\* twice returns the original token.
C15_ConvertEveryDigit ==
    fn_arg \in MoveTokens \cup DropTokens => ConvertsAndReturns

\* C15, amended: the same for the move tokens whose file digits are at most 4
\* (the board has files 1 to 3); file 2 maps to itself, 1 and 3 are swapped.
C15_ConvertInRange ==
    (fn_arg \in MoveTokens \cup DropTokens /\ FilesInRange) =>
        /\ ConvertsAndReturns
        /\ pc \in {"converted", "converted_twice"} =>
               \A i \in FilePositions(fn_arg) :
                   /\ fn_arg[i] = "2" => fn_res[1][i] = "2"
                   /\ fn_arg[i] = "1" => fn_res[1][i] = "3"
                   /\ fn_arg[i] = "3" => fn_res[1][i] = "1"

\* a promoting move from file 1 to file 3 was translated and translated back
C15_Witness ==
    /\ pc = "converted_twice"
    /\ fn_arg = <<"1", "a", "3", "e", "+">>
    /\ fn_res[1] = <<"3", "a", "1", "e", "+">>
    /\ fn_res[2] = fn_arg

\* ------------------------------------------------------------------------
\* position_only_sfen on the text of a position: it is applied to a text, then
\* to its result.  (The program model keeps a position text in parsed form,
\* where the same function drops the moves part.)
\* ------------------------------------------------------------------------
MovesMarker == <<" ", "m", "o", "v", "e", "s">>

\* the places where pat occurs in text
Occurrences(text, pat) ==
    {i \in 1..(Len(text) - Len(pat) + 1) : SubSeq(text, i, i + Len(pat) - 1) = pat}

\* str::find: the first place where pat occurs, 0 for None
find(text, pat) ==
    IF Occurrences(text, pat) = {} THEN 0
    ELSE CHOOSE i \in Occurrences(text, pat) : \A j \in Occurrences(text, pat) : i <= j

\* a variant that cuts at the last marker: the property of position_only_sfen
\* must tell it from the function
position_only_sfen_text_last(sfen) ==
    LET occ == Occurrences(sfen, MovesMarker)
    IN IF occ = {} THEN sfen
       ELSE SubSeq(sfen, 1, (CHOOSE i \in occ : \A j \in occ : j <= i) - 1)

position_only_sfen_text(sfen) ==
    LET idx == find(sfen, MovesMarker)
    IN IF idx # 0 THEN SubSeq(sfen, 1, idx - 1) ELSE sfen

\* the number of pieces a text is put together from
MaxPieces == 3

\* pieces of position texts: a board, a side to move, the marker, parts of
\* the marker, a move
TextPieces ==
    {<<"k">>, <<" ", "b">>, MovesMarker, <<" ", "m", "o", "v", "e">>,
     <<"m", "o", "v", "e", "s">>, <<" ", "1", "a">>}

RECURSIVE Flatten(_)
Flatten(pieces) ==
    IF pieces = <<>> THEN <<>> ELSE Head(pieces) \o Flatten(Tail(pieces))

Texts ==
    {Flatten(ps) : ps \in UNION {[1..n -> TextPieces] : n \in 0..MaxPieces}}

InitStrip ==
    /\ pc = "strip"
    /\ fn_arg \in Texts
    /\ fn_res = <<>>
    /\ is_black_turn = TRUE
    /\ search_ret = NoRet
    /\ InitRest

StripOnce ==
    /\ pc = "strip"
    /\ fn_res' = <<position_only_sfen_text(fn_arg)>>
    /\ pc' = "stripped"
    /\ UNCHANGED <<count, calls, attempt, gameVars, accVars, callVars, chanVars,
                   sent_position, game_result, gen_ret, search_ret, sel, logVars,
                   fn_arg>>

StripTwice ==
    /\ pc = "stripped"
    /\ fn_res' = Append(fn_res, position_only_sfen_text(fn_res[1]))
    /\ pc' = "stripped_twice"
    /\ UNCHANGED <<count, calls, attempt, gameVars, accVars, callVars, chanVars,
                   sent_position, game_result, gen_ret, search_ret, sel, logVars,
                   fn_arg>>

NextStrip == StripOnce \/ StripTwice

SpecStrip == InitStrip /\ [][NextStrip]_vars

\* the texts without the marker
BareTexts == {t \in Texts : Occurrences(t, MovesMarker) = {}}

\* C16: position_only_sfen returns the text before the first " moves" marker,
\* or the whole text when there is none: a bare position followed by the
\* marker and a history gives the bare position, a bare position is returned
\* unchanged, and stripping twice equals stripping once.
C16_PositionOnly ==
    /\ pc \in {"stripped", "stripped_twice"} =>
           LET occ == Occurrences(fn_arg, MovesMarker)
               res == fn_res[1]
           IN /\ occ = {} => res = fn_arg
              /\ occ # {} =>
                     /\ Len(res) + 1 \in occ
                     /\ \A j \in occ : Len(res) + 1 <= j
                     /\ res = SubSeq(fn_arg, 1, Len(res))
              /\ \A bare \in BareTexts :
                     /\ fn_arg = bare => res = bare
                     /\ (/\ Len(fn_arg) >= Len(bare) + Len(MovesMarker)
                         /\ SubSeq(fn_arg, 1, Len(bare) + Len(MovesMarker))
                                = bare \o MovesMarker) => res = bare
    /\ pc = "stripped_twice" => fn_res[2] = fn_res[1]

\* a position with a history that holds the marker twice was stripped to the
\* text before the first marker, and stripping that again changed nothing
C16_Witness ==
    /\ pc = "stripped_twice"
    /\ fn_arg = <<"k">> \o MovesMarker \o MovesMarker
    /\ fn_res[1] = <<"k">>
    /\ fn_res[2] = <<"k">>

\* ------------------------------------------------------------------------
\* Progress of the program.  The engine may go on sending responses that are
\* neither Info nor BestMove (an Info event is skipped by the read loop in the
\* same way) for as long as it likes, each within the maximum wait of the
\* read.
\* ------------------------------------------------------------------------
EngineChatter ==
    /\ pc = "recv"
    /\ rx = <<>>
    /\ alive
    /\ pending # <<>>
    /\ InStep
    /\ EngineVaries
    /\ rx' = Append(rx, EvOther(Head(pending).own))
    /\ UNCHANGED <<ctlVars, gameVars, accVars, callVars, pending, alive,
                   sent_position, game_result, gen_ret, search_ret, sel, logVars>>
    /\ UNCHANGED fnVars

\* the steps of the program itself
ProgramStep ==
    \/ MainCall
    \/ MainExit
    \/ TurnCeiling
    \/ TurnSendFails
    \/ TurnSetPosition
    \/ GoSendFails
    \/ GoSend
    \/ RecvInfo
    \/ RecvOther
    \/ RecvBestMove
    \/ RecvTimeout

NextLive == Next \/ EngineChatter

\* the program runs on whenever it can (a read with an empty queue ends by
\* the timeout if nothing arrives), and the engine answers a search when it
\* is left to
SpecLive ==
    /\ Init
    /\ [][NextLive]_vars
    /\ WF_vars(ProgramStep)
    /\ WF_vars(EngineBestMove)

\* C17: every call of search_with_time eventually returns, whatever the
\* engine does: the blocking read never suspends the caller for ever.
C17_SearchReturns == (pc = "recv") ~> (pc # "recv")

\* ------------------------------------------------------------------------
\* The score of a candidate on its own: search_with_time receives, with fresh
\* accumulators, one evaluation update that reports a score and a move line
\* ------------------------------------------------------------------------
\* the largest reported value, in either direction
MaxScore == 8

InitScore ==
    /\ pc = "score"
    /\ fn_arg \in [score : (-MaxScore)..MaxScore, kind : CpKinds \cup MateKinds]
    /\ fn_res = <<>>
    /\ is_black_turn = TRUE
    /\ search_ret = NoRet
    /\ InitRest

StoreScore ==
    /\ pc = "score"
    /\ fn_res' = store_pv(<<>>,
                          apply_params([multipv |-> 1, score |-> 0, moves |-> <<>>],
                                       <<PScore(fn_arg.score, fn_arg.kind),
                                         PPv(<<M1>>)>>))
    /\ pc' = "scored"
    /\ UNCHANGED <<count, calls, attempt, gameVars, accVars, callVars, chanVars,
                   sent_position, game_result, gen_ret, search_ret, sel, logVars,
                   fn_arg>>

NextScore == StoreScore

SpecScore == InitScore /\ [][NextScore]_vars

\* C18: the score stored for a candidate is the reported value for the
\* centipawn kinds; for every mate kind it is +10000 when the reported value
\* is positive and -10000 when it is negative.
C18_StoredScore ==
    pc = "scored" =>
        /\ Len(fn_res) = 1
        /\ fn_arg.kind \in {"CpExact", "CpLowerbound", "CpUpperbound"} =>
               fn_res[1].score = fn_arg.score
        /\ fn_arg.kind \in {"MateExact", "MateSignOnly", "MateLowerbound",
                            "MateUpperbound"} =>
               /\ fn_arg.score > 0 => fn_res[1].score = 10000
               /\ fn_arg.score < 0 => fn_res[1].score = -10000

\* a mate in 3 reported as a lower bound was stored as +10000
C18_Witness ==
    /\ pc = "scored"
    /\ fn_arg = [score |-> 3, kind |-> "MateLowerbound"]
    /\ fn_res[1].score = 10000

\* the history and the local position at a moment of a game
HistoryInOrder ==
    /\ Len(position) = Len(move_history)
    /\ \A i \in 1..Len(move_history) :
           /\ move_history[i] \in {M1, M2}
           /\ move_history[i] = M1 => position[i] = "3e2d"
           /\ move_history[i] = M2 => position[i] = "1a2b"
    /\ (pc \in {"go", "recv"} /\ alive) =>
           sent_position = [base |-> "STARTING_SFEN", moves |-> move_history]
    /\ (pc = "turn" /\ move_num = 0) => (move_history = <<>> /\ position = <<>>)

\* what a step does to the history: nothing, or one token appended together
\* with its translation applied to the position, or a new game
HistoryStep ==
    \/ /\ move_history' = move_history
       /\ position' = position
    \/ /\ pc = "recv"
       /\ pc' = "turn"
       /\ sel'.tag = "Move"
       /\ move_history' = Append(move_history, sel'.mv)
       /\ position' = Append(position,
                             token_of(convert_move_files(chars_of(sel'.mv))))
    \/ /\ game_result'.kind \in {"Checkmate", "Error", "NoResult"}
       /\ game_result'.history = move_history
       /\ move_history' = <<>>
       /\ position' = <<>>

\* C19: the position command of a turn is the starting position followed by
\* the whole move history, which is, in order, the engine's tokens whose
\* translations were applied to the local position; within a game the
\* history is only appended to, and a new game starts from the empty history.
C19_History == []HistoryInOrder /\ [][HistoryStep]_vars

\* at ply 2 the engine has been sent the two tokens played, and the local
\* position holds their translations
C19_Witness ==
    /\ pc = "recv"
    /\ move_history = <<M1, M2>>
    /\ position = <<"3e2d", "1a2b">>
    /\ sent_position = [base |-> "STARTING_SFEN", moves |-> <<M1, M2>>]

\* the selection has a candidate to take its move from
UsableCandidate == IF is_black_turn THEN RankOne # {} ELSE SelPv # <<>>

\* C20: get_best_move and get_worst_move never return a Resign search result,
\* so the unreachable!() arm of simulate_game is never taken: a resignation
\* without a usable candidate is reported as no move available.
C20_NeverResign ==
    pc = "selected" =>
        /\ sel.tag \in {"Move", "Checkmate", "None"}
        /\ (SelResult.tag = "Resign" /\ ~UsableCandidate) => sel = OptNone

\* black was given a resignation and a candidate of rank 2 only: no move is
\* available
C20_Witness ==
    /\ pc = "selected"
    /\ is_black_turn
    /\ SelResult.tag = "Resign"
    /\ SelPv # <<>>
    /\ RankOne = {}
    /\ sel = OptNone

====
